---- MODULE Spec2Model ----
(***************************************************************************)
(* DarlingServer::Registry<Entry> (registry.hpp): a dual-keyed registry of *)
(* shared entries, indexed by Entry::ID in _map and by Entry::NSID in      *)
(* _nsmap, guarded by one std::shared_mutex per registry instance and by a *)
(* thread_local flag, _registeringWithLockHeld, per Registry<Entry>.       *)
(***************************************************************************)
EXTENDS Naturals, FiniteSets, Sequences, TLC

\* ------------------------------------------------------------------ bounds
\* Internal ids are 1..MaxID and namespace ids are 1..MaxNSID.  NumEntries
\* entry objects exist; NumThreads threads call into the registries.
MaxID == 2
MaxNSID == 2
NumEntries == 5
NumThreads == 2

\* In the runs on both registries the factories return one of the first
\* NumMade entries.
NumMade == 1

IDs == 1..MaxID
NSIDs == 1..MaxNSID
Threads == 1..NumThreads

\* An entry handle (std::shared_ptr<Entry>) is the address of its object:
\* two handles are the same pointer iff they are the same number.
Entries == 1..NumEntries

\* The absent value: end() of a map, std::nullopt of a lookup.
NoEntry == 0

\* entry->id() and entry->nsid(): fixed for the life of the object.  The
\* objects run through all pairs of keys and then repeat them, so that
\* different objects share one key, the other key, both or none.
idOf(e) == ((e - 1) % MaxID) + 1
nsidOf(e) == (((e - 1) \div MaxID) % MaxNSID) + 1

\* The two instantiations, Registry<Process> and Registry<Thread>.
Registries == {"process", "thread"}

\* No thread: the exclusive owner of a free lock.
NoThread == 0

VARIABLES
    map,        \* map[r][i]   : _map of registry r, NoEntry where i is no key
    nsmap,      \* nsmap[r][n] : _nsmap of registry r
    rwlock,     \* rwlock[r]   : _rwlock, its exclusive owner and shared owners
    registeringWithLockHeld,  \* [t][r] : the thread_local flag of Registry<r>
    th          \* th[t]       : thread t's current (or last completed) call

vars == <<map, nsmap, rwlock, registeringWithLockHeld, th>>

\* ------------------------------------------------------------- call frames
\* op      the method called ("none" before the first call)
\* r       the registry it is called on
\* pc      the position in the method; "done" once it has returned
\* key     the NSID / ID argument (0 where the method takes none)
\* e       the entry argument, or the entry the factory returned
\* replace the replace argument of registerEntry
\* retB    the bool returned
\* retE    the handle returned (NoEntry: std::nullopt)
\* threw   the factory left registerIfAbsent by an exception
\* lby, lk  the lookup the factory makes: lookupEntryByID(lk) for lby = "id",
\*         lookupEntryByNSID(lk) for lby = "nsid" (lk = 0: it makes none)
\* lr      what that lookup returned
\* snap    what was registered under lk when registerIfAbsent took the lock
\* looked  the factory has made its lookup
\* lreg    the registry on which the factory is making a lookup, step by step
\* owns    the ScopedLock of this scope owns _rwlock (owns_lock()); once the
\*         scope is left: it did when its destructor ran
\* exit    the path by which the scope of a ScopedLock was left
IdleFrame ==
    [op |-> "none", r |-> "process", pc |-> "done", key |-> 0, e |-> NoEntry,
     replace |-> FALSE, retB |-> FALSE, retE |-> NoEntry, threw |-> FALSE,
     lby |-> "id", lk |-> 0, lr |-> NoEntry, snap |-> NoEntry,
     looked |-> FALSE, owns |-> FALSE, exit |-> "none",
     lreg |-> "none"]

Init ==
    /\ map = [r \in Registries |-> [i \in IDs |-> NoEntry]]
    /\ nsmap = [r \in Registries |-> [n \in NSIDs |-> NoEntry]]
    /\ rwlock = [r \in Registries |-> [writer |-> NoThread, readers |-> {}]]
    /\ registeringWithLockHeld = [t \in Threads |-> [r \in Registries |-> FALSE]]
    /\ th = [t \in Threads |-> IdleFrame]

\* ------------------------------------------------- the methods' decisions
\* _map.find(id) != _map.end()
InMap(m, id) == m[id] # NoEntry

\* _nsmap.find(nsid) != _nsmap.end()
InNSMap(ns, nsid) == ns[nsid] # NoEntry

\* (mutant) the check of _nsmap is left out.
RegisterEntryRejects_IdOnly(m, ns, e, replace) ==
    ~replace /\ InMap(m, idOf(e))

\* registerEntry's early return: not replacing and one of the keys is taken.
RegisterEntryRejects(m, ns, e, replace) ==
    ~replace /\ (InMap(m, idOf(e)) \/ InNSMap(ns, nsidOf(e)))

\* (mutant) the early return of lines 93-95 is left out.
UnregisterByIDFails_NoCrossCheck(m, ns, id) == ~InMap(m, id)

\* unregisterEntryByID's two early returns: id is no key of _map, or the
\* nsid of the entry found is no key of _nsmap.
UnregisterByIDFails(m, ns, id) ==
    ~InMap(m, id) \/ ~InNSMap(ns, nsidOf(m[id]))

\* unregisterEntryByNSID's two early returns.
UnregisterByNSIDFails(m, ns, nsid) ==
    ~InNSMap(ns, nsid) \/ ~InMap(m, idOf(ns[nsid]))

\* (mutant) the pointer comparison is left out.
UnregisterEntryFails_KeysOnly(m, ns, e) ==
    ~InMap(m, idOf(e)) \/ ~InNSMap(ns, nsidOf(e))

\* unregisterEntry's two early returns: a key is missing, or one of the two
\* handles found is not the pointer passed in.
UnregisterEntryFails(m, ns, e) ==
    \/ ~InMap(m, idOf(e)) \/ ~InNSMap(ns, nsidOf(e))
    \/ m[idOf(e)] # e \/ ns[nsidOf(e)] # e

\* _map[entry->id()] = entry
PutMap(m, e) == [m EXCEPT ![idOf(e)] = e]

\* _nsmap[entry->nsid()] = entry
PutNSMap(ns, e) == [ns EXCEPT ![nsidOf(e)] = e]

\* (mutant) _map.clear() in place of _map.erase(it).
EraseMap_Clear(m, id) == [i \in IDs |-> NoEntry]

\* _map.erase(it), it found under id
EraseMap(m, id) == [m EXCEPT ![id] = NoEntry]

\* _nsmap.erase(it2), it2 found under nsid
EraseNSMap(ns, nsid) == [ns EXCEPT ![nsid] = NoEntry]

\* ------------------------------------------------------------ the lock
\* (mutant) a lock that is granted while another thread owns it exclusively.
CanLock_ReadersOnly(r) == rwlock[r].readers = {}

\* std::shared_mutex::lock() returns once nobody owns the mutex.
CanLock(r) == rwlock[r].writer = NoThread /\ rwlock[r].readers = {}

\* std::shared_mutex::lock_shared() returns once no thread owns it exclusively.
CanLockShared(r) == rwlock[r].writer = NoThread

Locked(r, t) == [rwlock EXCEPT ![r].writer = t]

Unlocked(r) == [rwlock EXCEPT ![r].writer = NoThread]

\* (mutant) the lookups' lock declared std::unique_lock: lock() is exclusive.
LockedShared_Exclusive(r, t) == [rwlock EXCEPT ![r].writer = t]

\* std::shared_lock::lock(): the thread becomes one of the shared owners.
LockedShared(r, t) == [rwlock EXCEPT ![r].readers = @ \cup {t}]

UnlockedShared(r, t) == [rwlock EXCEPT ![r].readers = @ \ {t}]

\* The frame of a call that has returned.
Returned(op, r, key, e, replace, retB, retE) ==
    [IdleFrame EXCEPT !.op = op, !.r = r, !.key = key, !.e = e,
                      !.replace = replace, !.retB = retB, !.retE = retE]

\* ------------------------------------------ the methods, one call at a time
\* Every action below is one whole call made by thread t while no other call
\* is in flight: the lock is taken at entry and released at return.

\* What lookupEntryByID(lk) (lby = "id") or lookupEntryByNSID(lk) finds.
Lookup(r, lby, lk) ==
    IF lk = 0 THEN NoEntry
    ELSE IF lby = "id" THEN map[r][lk] ELSE nsmap[r][lk]

\* The lookups a factory can make: none, or one by either key.
FactoryLookups ==
    {<<"id", 0>>} \cup {<<"id", i>> : i \in IDs} \cup {<<"nsid", n>> : n \in NSIDs}

\* (mutant) line 65 stores the entry under the key passed in.
RegisterIfAbsent_UnderK(t, r, nsid, e) ==
    /\ CanLock(r)
    /\ IF InNSMap(nsmap[r], nsid)
       THEN /\ th' = [th EXCEPT ![t] =
                   Returned("registerIfAbsent", r, nsid, NoEntry, FALSE, FALSE,
                            nsmap[r][nsid])]
            /\ UNCHANGED <<map, nsmap, registeringWithLockHeld>>
       ELSE /\ map' = [map EXCEPT ![r] = PutMap(@, e)]
            /\ nsmap' = [nsmap EXCEPT ![r][nsid] = e]
            /\ registeringWithLockHeld' =
                   [registeringWithLockHeld EXCEPT ![t][r] = FALSE]
            /\ th' = [th EXCEPT ![t] =
                   Returned("registerIfAbsent", r, nsid, e, FALSE, FALSE, e)]
    /\ UNCHANGED rwlock

\* registerIfAbsent(nsid, entryFactory), the factory returning entry e.
RegisterIfAbsent(t, r, nsid, e) ==
    /\ CanLock(r)
    /\ IF InNSMap(nsmap[r], nsid)
       THEN /\ th' = [th EXCEPT ![t] =
                   Returned("registerIfAbsent", r, nsid, NoEntry, FALSE, FALSE,
                            nsmap[r][nsid])]
            /\ UNCHANGED <<map, nsmap, registeringWithLockHeld>>
       ELSE /\ map' = [map EXCEPT ![r] = PutMap(@, e)]
            /\ nsmap' = [nsmap EXCEPT ![r] = PutNSMap(@, e)]
            /\ registeringWithLockHeld' =
                   [registeringWithLockHeld EXCEPT ![t][r] = FALSE]
            /\ th' = [th EXCEPT ![t] =
                   Returned("registerIfAbsent", r, nsid, e, FALSE, FALSE, e)]
    /\ UNCHANGED rwlock

\* registerIfAbsent(nsid, entryFactory), the factory throwing: the unique_lock
\* is released by the unwinding, line 63 is never reached.
RegisterIfAbsentThrows(t, r, nsid) ==
    /\ CanLock(r)
    /\ ~InNSMap(nsmap[r], nsid)
    /\ registeringWithLockHeld' =
           [registeringWithLockHeld EXCEPT ![t][r] = TRUE]
    /\ th' = [th EXCEPT ![t] =
           [Returned("registerIfAbsent", r, nsid, NoEntry, FALSE, FALSE, NoEntry)
               EXCEPT !.threw = TRUE]]
    /\ UNCHANGED <<map, nsmap, rwlock>>

\* registerEntry(entry, replace)
RegisterEntry(t, r, e, replace) ==
    /\ CanLock(r)
    /\ IF RegisterEntryRejects(map[r], nsmap[r], e, replace)
       THEN /\ th' = [th EXCEPT ![t] =
                   Returned("registerEntry", r, 0, e, replace, FALSE, NoEntry)]
            /\ UNCHANGED <<map, nsmap>>
       ELSE /\ map' = [map EXCEPT ![r] = PutMap(@, e)]
            /\ nsmap' = [nsmap EXCEPT ![r] = PutNSMap(@, e)]
            /\ th' = [th EXCEPT ![t] =
                   Returned("registerEntry", r, 0, e, replace, TRUE, NoEntry)]
    /\ UNCHANGED <<rwlock, registeringWithLockHeld>>

\* unregisterEntryByID(id)
UnregisterEntryByID(t, r, id) ==
    /\ CanLock(r)
    /\ IF UnregisterByIDFails(map[r], nsmap[r], id)
       THEN /\ th' = [th EXCEPT ![t] =
                   Returned("unregisterEntryByID", r, id, NoEntry, FALSE, FALSE,
                            NoEntry)]
            /\ UNCHANGED <<map, nsmap>>
       ELSE /\ map' = [map EXCEPT ![r] = EraseMap(@, id)]
            /\ nsmap' = [nsmap EXCEPT ![r] = EraseNSMap(@, nsidOf(map[r][id]))]
            /\ th' = [th EXCEPT ![t] =
                   Returned("unregisterEntryByID", r, id, map[r][id], FALSE, TRUE,
                            NoEntry)]
    /\ UNCHANGED <<rwlock, registeringWithLockHeld>>

\* unregisterEntryByNSID(nsid)
UnregisterEntryByNSID(t, r, nsid) ==
    /\ CanLock(r)
    /\ IF UnregisterByNSIDFails(map[r], nsmap[r], nsid)
       THEN /\ th' = [th EXCEPT ![t] =
                   Returned("unregisterEntryByNSID", r, nsid, NoEntry, FALSE, FALSE,
                            NoEntry)]
            /\ UNCHANGED <<map, nsmap>>
       ELSE /\ map' = [map EXCEPT ![r] = EraseMap(@, idOf(nsmap[r][nsid]))]
            /\ nsmap' = [nsmap EXCEPT ![r] = EraseNSMap(@, nsid)]
            /\ th' = [th EXCEPT ![t] =
                   Returned("unregisterEntryByNSID", r, nsid, nsmap[r][nsid], FALSE,
                            TRUE, NoEntry)]
    /\ UNCHANGED <<rwlock, registeringWithLockHeld>>

\* unregisterEntry(entry)
UnregisterEntry(t, r, e) ==
    /\ CanLock(r)
    /\ IF UnregisterEntryFails(map[r], nsmap[r], e)
       THEN /\ th' = [th EXCEPT ![t] =
                   Returned("unregisterEntry", r, 0, e, FALSE, FALSE, NoEntry)]
            /\ UNCHANGED <<map, nsmap>>
       ELSE /\ map' = [map EXCEPT ![r] = EraseMap(@, idOf(e))]
            /\ nsmap' = [nsmap EXCEPT ![r] = EraseNSMap(@, nsidOf(e))]
            /\ th' = [th EXCEPT ![t] =
                   Returned("unregisterEntry", r, 0, e, FALSE, TRUE, NoEntry)]
    /\ UNCHANGED <<rwlock, registeringWithLockHeld>>

\* lookupEntryByID(id): the shared lock is taken unless the flag is set.
LookupEntryByID(t, r, id) ==
    /\ registeringWithLockHeld[t][r] \/ CanLockShared(r)
    /\ th' = [th EXCEPT ![t] =
           Returned("lookupEntryByID", r, id, NoEntry, FALSE, FALSE, map[r][id])]
    /\ UNCHANGED <<map, nsmap, rwlock, registeringWithLockHeld>>

\* lookupEntryByNSID(nsid)
LookupEntryByNSID(t, r, nsid) ==
    /\ registeringWithLockHeld[t][r] \/ CanLockShared(r)
    /\ th' = [th EXCEPT ![t] =
           Returned("lookupEntryByNSID", r, nsid, NoEntry, FALSE, FALSE,
                    nsmap[r][nsid])]
    /\ UNCHANGED <<map, nsmap, rwlock, registeringWithLockHeld>>

\* The thread and the registry of the single-threaded runs.
MainThread == CHOOSE t \in Threads : \A u \in Threads : t <= u

MainRegistry == "process"

Next ==
    \/ \E nsid \in NSIDs, e \in Entries :
           RegisterIfAbsent(MainThread, MainRegistry, nsid, e)
    \/ \E nsid \in NSIDs : RegisterIfAbsentThrows(MainThread, MainRegistry, nsid)
    \/ \E e \in Entries, replace \in BOOLEAN :
           RegisterEntry(MainThread, MainRegistry, e, replace)
    \/ \E id \in IDs : UnregisterEntryByID(MainThread, MainRegistry, id)
    \/ \E nsid \in NSIDs : UnregisterEntryByNSID(MainThread, MainRegistry, nsid)
    \/ \E e \in Entries : UnregisterEntry(MainThread, MainRegistry, e)
    \/ \E id \in IDs : LookupEntryByID(MainThread, MainRegistry, id)
    \/ \E nsid \in NSIDs : LookupEntryByNSID(MainThread, MainRegistry, nsid)

Spec == Init /\ [][Next]_vars

\* ================================================= single-threaded claims
\* In Spec every state is quiescent and every step is one call of MainThread
\* on MainRegistry; th'[MainThread] is the frame of the call the step made.
M == map[MainRegistry]

NS == nsmap[MainRegistry]

Last == th[MainThread]

\* lookupEntryByID(idOf(e)) and lookupEntryByNSID(nsidOf(e)) both return e.
Registered(e) == M[idOf(e)] = e /\ NS[nsidOf(e)] = e

\* e is returned by exactly one of the two lookups on its own keys.
HalfFindable(e) == (M[idOf(e)] = e) # (NS[nsidOf(e)] = e)

UnregisterOps == {"unregisterEntryByID", "unregisterEntryByNSID", "unregisterEntry"}

\* C2 (invariant I1, index consistency): every handle in _map is in _nsmap
\* as the same object under its own nsid(), and every handle in _nsmap is in
\* _map as the same object under its own id().
C2_IndexConsistency ==
    \A r \in Registries :
        /\ \A i \in IDs : map[r][i] # NoEntry =>
               nsmap[r][nsidOf(map[r][i])] = map[r][i]
        /\ \A n \in NSIDs : nsmap[r][n] # NoEntry =>
               map[r][idOf(nsmap[r][n])] = nsmap[r][n]

\* C3 as claimed: once both lookups return E they keep returning E over every
\* call that is not a successful unregister call of E.
C3_DualIndexAgreement ==
    [][\A e \in Entries :
           (/\ Registered(e)
            /\ ~(/\ Last'.op \in UnregisterOps
                 /\ Last'.retB
                 /\ Last'.e = e))
           => Registered(e)']_vars

\* The call the step made wrote or erased an index entry under one of e's
\* keys: it stored another entry sharing a key with e (registerEntry that
\* returned true, registerIfAbsent on its create path), or it is an
\* unregister call that returned true for e or for an entry sharing a key
\* with e.
SharesKey(e, f) == idOf(e) = idOf(f) \/ nsidOf(e) = nsidOf(f)

Disturbs(e) ==
    /\ Last'.e # NoEntry
    /\ SharesKey(e, Last'.e)
    /\ \/ Last'.op = "registerEntry" /\ Last'.retB /\ Last'.e # e
       \/ Last'.op = "registerIfAbsent" /\ Last'.e # e
       \/ Last'.op \in UnregisterOps /\ Last'.retB

\* C3 as amended: once both lookups return E they keep returning E over
\* every call that neither stores another entry under one of E's keys nor
\* is a successful unregister call of E or of an entry sharing a key with E.
C3_DualIndexAgreementAmended ==
    [][\A e \in Entries : (Registered(e) /\ ~Disturbs(e)) => Registered(e)']_vars

\* E registered, another entry then unregistered with success, E still
\* returned by both lookups.
C3_Witness ==
    \E e \in Entries :
        /\ Registered(e)
        /\ Last.op = "unregisterEntry" /\ Last.retB /\ Last.e # e

\* C4 (collision rejection): registerEntry(E2, false) returns false and
\* leaves both maps as they were whenever E2's id or E2's nsid is a
\* registered key, and returns true only when neither is.
C4_CollisionRejection ==
    [][(Last'.op = "registerEntry" /\ ~Last'.replace) =>
           LET e2 == Last'.e IN
           /\ (InMap(M, idOf(e2)) \/ InNSMap(NS, nsidOf(e2))) =>
                  (~Last'.retB /\ UNCHANGED <<map, nsmap>>)
           /\ Last'.retB => (~InMap(M, idOf(e2)) /\ ~InNSMap(NS, nsidOf(e2)))]_vars

\* registerEntry(E2, false) has returned false with E2's id taken by another
\* entry although E2's nsid is unregistered.
C4_Witness ==
    /\ Last.op = "registerEntry" /\ ~Last.replace /\ ~Last.retB
    /\ InMap(M, idOf(Last.e)) /\ M[idOf(Last.e)] # Last.e
    /\ ~InNSMap(NS, nsidOf(Last.e))

\* C5 (identity-checked removal): unregisterEntry(E) returns false and
\* changes nothing if a key of E is absent or the handle under one of E's
\* keys is not E; otherwise it returns true and erases exactly the two
\* index entries of E.
C5_IdentityCheckedRemoval ==
    [][Last'.op = "unregisterEntry" =>
           LET e == Last'.e IN
           IF Registered(e)
           THEN /\ Last'.retB
                /\ map' = [map EXCEPT ![MainRegistry][idOf(e)] = NoEntry]
                /\ nsmap' = [nsmap EXCEPT ![MainRegistry][nsidOf(e)] = NoEntry]
           ELSE ~Last'.retB /\ UNCHANGED <<map, nsmap>>]_vars

\* unregisterEntry(E) has returned false while another object with E's two
\* keys is registered under both of them.
C5_Witness ==
    /\ Last.op = "unregisterEntry" /\ ~Last.retB
    /\ \E f \in Entries :
           /\ f # Last.e
           /\ idOf(f) = idOf(Last.e) /\ nsidOf(f) = nsidOf(Last.e)
           /\ Registered(f)

\* C6 (all-or-nothing removal): unregisterEntryByID / unregisterEntryByNSID
\* erase one entry of each map or nothing, the entry found is afterwards
\* returned by neither lookup, and the call leaves no entry findable by one
\* of its keys but not by the other that was not so before the call.
C6_AllOrNothingRemoval ==
    [][Last'.op \in {"unregisterEntryByID", "unregisterEntryByNSID"} =>
           /\ IF Last'.retB
              THEN /\ \E i \in IDs : M[i] # NoEntry /\ map' =
                          [map EXCEPT ![MainRegistry][i] = NoEntry]
                   /\ \E n \in NSIDs : NS[n] # NoEntry /\ nsmap' =
                          [nsmap EXCEPT ![MainRegistry][n] = NoEntry]
                   /\ NS'[nsidOf(Last'.e)] = NoEntry
                   /\ M'[idOf(Last'.e)] = NoEntry
              ELSE UNCHANGED <<map, nsmap>>
           /\ \A e \in Entries : HalfFindable(e)' => HalfFindable(e)]_vars

\* C12 (all-or-nothing on failure): a registerEntry or unregister call that
\* returns false leaves both maps as they were; and the key-only removals
\* return false when the entry found under the given key has its derived key
\* missing from the other map.
C12_AllOrNothingOnFailure ==
    [][Last'.op \in {"registerEntry"} \cup UnregisterOps =>
           /\ ~Last'.retB => UNCHANGED <<map, nsmap>>
           /\ (/\ Last'.op = "unregisterEntryByID"
               /\ M[Last'.key] # NoEntry
               /\ NS[nsidOf(M[Last'.key])] = NoEntry) => ~Last'.retB
           /\ (/\ Last'.op = "unregisterEntryByNSID"
               /\ NS[Last'.key] # NoEntry
               /\ M[idOf(NS[Last'.key])] = NoEntry) => ~Last'.retB]_vars

\* unregisterEntryByID(i) has returned false although an entry is registered
\* under i: its nsid is no key of _nsmap.
C12_Witness ==
    /\ Last.op = "unregisterEntryByID" /\ ~Last.retB
    /\ M[Last.key] # NoEntry
    /\ NS[nsidOf(M[Last.key])] = NoEntry

\* The call the step made is registerIfAbsent on its create path: the
\* factory was called and returned Last'.e.
Created == Last'.op = "registerIfAbsent" /\ Last'.e # NoEntry

\* C17 (factory key mismatch is not reconciled): on the create path the new
\* entry is returned and indexed under its own id() and nsid(); where its
\* nsid() is not K, K is as unregistered after the call as before.
C17_KeyMismatchNotReconciled ==
    [][Created =>
           LET e == Last'.e IN
           /\ Last'.retE = e
           /\ M'[idOf(e)] = e /\ NS'[nsidOf(e)] = e
           /\ nsidOf(e) # Last'.key => NS'[Last'.key] = NoEntry]_vars

\* registerIfAbsent(K, factory) has returned an entry whose nsid() is not K:
\* the entry is found under its own two keys and K is unregistered.
C17_Witness ==
    /\ Last.op = "registerIfAbsent" /\ Last.e # NoEntry
    /\ nsidOf(Last.e) # Last.key
    /\ Registered(Last.e)
    /\ NS[Last.key] = NoEntry

\* C19 (key-only removal erases one entity only): when unregisterEntryByID or
\* unregisterEntryByNSID returns true, the two index entries it erased both
\* held the entry found under the given key, and every other entry that both
\* lookups returned before the call is returned by both after it.
C19_KeyOnlyRemovalErasesOne ==
    [][(Last'.op \in {"unregisterEntryByID", "unregisterEntryByNSID"}
            /\ Last'.retB) =>
           /\ Registered(Last'.e)
           /\ \A e \in Entries \ {Last'.e} : Registered(e) => Registered(e)']_vars

\* C20 (create-if-absent displaces nothing): on the create path every id and
\* every nsid that was registered before the call is looked up to the same
\* handle after it.
C20_CreateDisplacesNothing ==
    [][Created =>
           /\ \A i \in IDs : M[i] # NoEntry => M'[i] = M[i]
           /\ \A n \in NSIDs : NS[n] # NoEntry => NS'[n] = NS[n]]_vars

\* ======================================================= the methods, by step
\* For runs with several threads every method is cut where a step of another
\* thread can make a difference: before each write of a map, around the
\* factory call, between a lookup's lock and its find.  The first step of a
\* mutating method takes the exclusive lock and makes the reads that decide
\* its early returns: no other thread can write between the two.  A thread
\* that waits for the lock has not taken its step yet.  keep tells whether
\* the caller keeps what the method returned (the frame of the returned
\* call, with its arguments) or drops it; an argument the method does not
\* read again is kept in the frame only for that.
Ret(keep, frame) == IF keep THEN frame ELSE IdleFrame

\* A thread outside every method.
Outside(t) == th[t].pc = "done"

\* The frame of a call of op on r that is at pc.
Entered(op, r, pc, key, e, replace) ==
    [IdleFrame EXCEPT !.op = op, !.r = r, !.pc = pc, !.key = key,
                      !.e = e, !.replace = replace]

At(t, op, pc) == th[t].op = op /\ th[t].pc = pc

\* (mutant) one flag for all registries: the member declared outside the
\* class template.
FlagSet_AllRegistries(t, r) ==
    [registeringWithLockHeld EXCEPT ![t] = [q \in Registries |-> TRUE]]

\* (mutant) line 61 left out.
FlagSet_Forgotten(t, r) == registeringWithLockHeld

\* _registeringWithLockHeld = true (line 61)
FlagSet(t, r) == [registeringWithLockHeld EXCEPT ![t][r] = TRUE]

\* _registeringWithLockHeld = false (line 63)
FlagCleared(t, r) == [registeringWithLockHeld EXCEPT ![t][r] = FALSE]

\* ---- registerIfAbsent
\* (mutant) lines 56-59 left out: the factory is called whatever _nsmap holds.
RIA_Begin_NoFind(t, r, nsid, lby, lk, keep) ==
    /\ Outside(t)
    /\ CanLock(r)
    /\ rwlock' = Locked(r, t)
    /\ registeringWithLockHeld' = FlagSet(t, r)
    /\ th' = [th EXCEPT ![t] =
           [Entered("registerIfAbsent", r, "factory",
                    IF keep THEN nsid ELSE 0, NoEntry, FALSE)
               EXCEPT !.lby = lby, !.lk = lk, !.snap = Lookup(r, lby, lk)]]
    /\ UNCHANGED <<map, nsmap>>

\* lines 54-61: std::unique_lock lock(_rwlock); the entry found under nsid is
\* returned, or the flag is set.  The factory passed in makes the lookup
\* lby, lk when it is called.
RIA_Begin(t, r, nsid, lby, lk, keep) ==
    /\ Outside(t)
    /\ CanLock(r)
    /\ IF InNSMap(nsmap[r], nsid)
       THEN /\ th' = [th EXCEPT ![t] =
                   Ret(keep, Returned("registerIfAbsent", r, nsid, NoEntry,
                                      FALSE, FALSE, nsmap[r][nsid]))]
            /\ UNCHANGED <<rwlock, registeringWithLockHeld>>
       ELSE /\ rwlock' = Locked(r, t)
            /\ registeringWithLockHeld' = FlagSet(t, r)
            /\ th' = [th EXCEPT ![t] =
                   [Entered("registerIfAbsent", r, "factory",
                            IF keep THEN nsid ELSE 0, NoEntry, FALSE)
                       EXCEPT !.lby = lby, !.lk = lk,
                              !.snap = Lookup(r, lby, lk)]]
    /\ UNCHANGED <<map, nsmap>>

\* line 62, inside entryFactory(): its call of lookupEntryByID or
\* lookupEntryByNSID on this registry (lines 150-178), which takes the shared
\* lock unless the flag is set.
RIA_FactoryLookup(t) ==
    /\ At(t, "registerIfAbsent", "factory")
    /\ th[t].lk # 0 /\ ~th[t].looked
    /\ registeringWithLockHeld[t][th[t].r] \/ CanLockShared(th[t].r)
    /\ th' = [th EXCEPT ![t].looked = TRUE,
                        ![t].lr = Lookup(th[t].r, th[t].lby, th[t].lk)]
    /\ UNCHANGED <<map, nsmap, rwlock, registeringWithLockHeld>>

\* line 62, inside entryFactory(): the factory calls lookupEntryByID or
\* lookupEntryByNSID of registry q, its own or the other one (lines 150-151,
\* 165-166: the shared_lock is constructed deferred).
RIA_FactoryCallsLookup(t, q) ==
    /\ At(t, "registerIfAbsent", "factory")
    /\ th[t].lk = 0 /\ ~th[t].looked
    /\ th' = [th EXCEPT ![t].pc = "lookupcall", ![t].lreg = q]
    /\ UNCHANGED <<map, nsmap, rwlock, registeringWithLockHeld>>

\* lines 153-155 (168-170) of that lookup: lock.lock() unless the flag of
\* registry q is set for this thread; the thread waits for q's lock here.
RIA_FactoryLookupLock(t) ==
    /\ At(t, "registerIfAbsent", "lookupcall")
    /\ IF registeringWithLockHeld[t][th[t].lreg]
       THEN UNCHANGED rwlock
       ELSE /\ CanLockShared(th[t].lreg)
            /\ rwlock' = LockedShared(th[t].lreg, t)
    /\ th' = [th EXCEPT ![t].pc = "lookupread"]
    /\ UNCHANGED <<map, nsmap, registeringWithLockHeld>>

\* lines 157-163 (172-178) of that lookup: the find; the shared_lock is
\* released if it was taken, and the factory goes on with what was found
\* (keep) or without it.
RIA_FactoryLookupRead(t, lby, lk, keep) ==
    /\ At(t, "registerIfAbsent", "lookupread")
    /\ rwlock' = UnlockedShared(th[t].lreg, t)
    /\ th' = [th EXCEPT ![t].pc = "factory", ![t].looked = TRUE,
                        ![t].lr = IF keep THEN Lookup(th[t].lreg, lby, lk)
                                  ELSE NoEntry]
    /\ UNCHANGED <<map, nsmap, registeringWithLockHeld>>

\* line 62: entryFactory() returns entry e.
RIA_FactoryReturn(t, e) ==
    /\ At(t, "registerIfAbsent", "factory")
    /\ th[t].lk = 0 \/ th[t].looked
    /\ th' = [th EXCEPT ![t] =
           Entered("registerIfAbsent", th[t].r, "insert", th[t].key, e, FALSE)]
    /\ UNCHANGED <<map, nsmap, rwlock, registeringWithLockHeld>>

\* line 62: entryFactory() throws; the unwinding releases the unique_lock.
RIA_FactoryThrow(t, keep) ==
    /\ At(t, "registerIfAbsent", "factory")
    /\ th[t].lk = 0 \/ th[t].looked
    /\ rwlock' = Unlocked(th[t].r)
    /\ th' = [th EXCEPT ![t] =
           Ret(keep, [Returned("registerIfAbsent", th[t].r, th[t].key, NoEntry,
                               FALSE, FALSE, NoEntry) EXCEPT !.threw = TRUE])]
    /\ UNCHANGED <<map, nsmap, registeringWithLockHeld>>

\* lines 63-64: the flag is cleared, _map[entry->id()] = entry.
RIA_PutMap(t) ==
    /\ At(t, "registerIfAbsent", "insert")
    /\ registeringWithLockHeld' = FlagCleared(t, th[t].r)
    /\ map' = [map EXCEPT ![th[t].r] = PutMap(@, th[t].e)]
    /\ th' = [th EXCEPT ![t].pc = "insert2"]
    /\ UNCHANGED <<nsmap, rwlock>>

\* lines 65-66: _nsmap[entry->nsid()] = entry; return entry.
RIA_PutNSMap(t, keep) ==
    /\ At(t, "registerIfAbsent", "insert2")
    /\ nsmap' = [nsmap EXCEPT ![th[t].r] = PutNSMap(@, th[t].e)]
    /\ rwlock' = Unlocked(th[t].r)
    /\ th' = [th EXCEPT ![t] =
           Ret(keep, Returned("registerIfAbsent", th[t].r, th[t].key, th[t].e,
                              FALSE, FALSE, th[t].e))]
    /\ UNCHANGED <<map, registeringWithLockHeld>>

\* ---- registerEntry
\* lines 70-74
RE_Begin(t, r, e, replace, keep) ==
    /\ Outside(t)
    /\ CanLock(r)
    /\ IF RegisterEntryRejects(map[r], nsmap[r], e, replace)
       THEN /\ th' = [th EXCEPT ![t] =
                   Ret(keep, Returned("registerEntry", r, 0, e, replace, FALSE,
                                      NoEntry))]
            /\ UNCHANGED rwlock
       ELSE /\ rwlock' = Locked(r, t)
            /\ th' = [th EXCEPT ![t] =
                   Entered("registerEntry", r, "put", 0, e, keep /\ replace)]
    /\ UNCHANGED <<map, nsmap, registeringWithLockHeld>>

\* line 76
RE_PutMap(t) ==
    /\ At(t, "registerEntry", "put")
    /\ map' = [map EXCEPT ![th[t].r] = PutMap(@, th[t].e)]
    /\ th' = [th EXCEPT ![t].pc = "put2"]
    /\ UNCHANGED <<nsmap, rwlock, registeringWithLockHeld>>

\* lines 77-78
RE_PutNSMap(t, keep) ==
    /\ At(t, "registerEntry", "put2")
    /\ nsmap' = [nsmap EXCEPT ![th[t].r] = PutNSMap(@, th[t].e)]
    /\ rwlock' = Unlocked(th[t].r)
    /\ th' = [th EXCEPT ![t] =
           Ret(keep, Returned("registerEntry", th[t].r, 0, th[t].e,
                              th[t].replace, TRUE, NoEntry))]
    /\ UNCHANGED <<map, registeringWithLockHeld>>

\* ---- unregisterEntryByID
\* lines 82-95: it and it2 are found, or the call returns false.
UID_Begin(t, r, id, keep) ==
    /\ Outside(t)
    /\ CanLock(r)
    /\ IF UnregisterByIDFails(map[r], nsmap[r], id)
       THEN /\ th' = [th EXCEPT ![t] =
                   Ret(keep, Returned("unregisterEntryByID", r, id, NoEntry,
                                      FALSE, FALSE, NoEntry))]
            /\ UNCHANGED rwlock
       ELSE /\ rwlock' = Locked(r, t)
            /\ th' = [th EXCEPT ![t] =
                   Entered("unregisterEntryByID", r, "erase", id, map[r][id], FALSE)]
    /\ UNCHANGED <<map, nsmap, registeringWithLockHeld>>

\* line 97
UID_EraseMap(t) ==
    /\ At(t, "unregisterEntryByID", "erase")
    /\ map' = [map EXCEPT ![th[t].r] = EraseMap(@, th[t].key)]
    /\ th' = [th EXCEPT ![t].pc = "erase2"]
    /\ UNCHANGED <<nsmap, rwlock, registeringWithLockHeld>>

\* lines 98-99
UID_EraseNSMap(t, keep) ==
    /\ At(t, "unregisterEntryByID", "erase2")
    /\ nsmap' = [nsmap EXCEPT ![th[t].r] = EraseNSMap(@, nsidOf(th[t].e))]
    /\ rwlock' = Unlocked(th[t].r)
    /\ th' = [th EXCEPT ![t] =
           Ret(keep, Returned("unregisterEntryByID", th[t].r, th[t].key, th[t].e,
                              FALSE, TRUE, NoEntry))]
    /\ UNCHANGED <<map, registeringWithLockHeld>>

\* ---- unregisterEntryByNSID
\* lines 103-116
UNS_Begin(t, r, nsid, keep) ==
    /\ Outside(t)
    /\ CanLock(r)
    /\ IF UnregisterByNSIDFails(map[r], nsmap[r], nsid)
       THEN /\ th' = [th EXCEPT ![t] =
                   Ret(keep, Returned("unregisterEntryByNSID", r, nsid, NoEntry,
                                      FALSE, FALSE, NoEntry))]
            /\ UNCHANGED rwlock
       ELSE /\ rwlock' = Locked(r, t)
            /\ th' = [th EXCEPT ![t] =
                   Entered("unregisterEntryByNSID", r, "erase", nsid, nsmap[r][nsid],
                           FALSE)]
    /\ UNCHANGED <<map, nsmap, registeringWithLockHeld>>

\* line 118
UNS_EraseMap(t) ==
    /\ At(t, "unregisterEntryByNSID", "erase")
    /\ map' = [map EXCEPT ![th[t].r] = EraseMap(@, idOf(th[t].e))]
    /\ th' = [th EXCEPT ![t].pc = "erase2"]
    /\ UNCHANGED <<nsmap, rwlock, registeringWithLockHeld>>

\* lines 119-120
UNS_EraseNSMap(t, keep) ==
    /\ At(t, "unregisterEntryByNSID", "erase2")
    /\ nsmap' = [nsmap EXCEPT ![th[t].r] = EraseNSMap(@, th[t].key)]
    /\ rwlock' = Unlocked(th[t].r)
    /\ th' = [th EXCEPT ![t] =
           Ret(keep, Returned("unregisterEntryByNSID", th[t].r, th[t].key,
                              th[t].e, FALSE, TRUE, NoEntry))]
    /\ UNCHANGED <<map, registeringWithLockHeld>>

\* ---- unregisterEntry
\* lines 131-143
UE_Begin(t, r, e, keep) ==
    /\ Outside(t)
    /\ CanLock(r)
    /\ IF UnregisterEntryFails(map[r], nsmap[r], e)
       THEN /\ th' = [th EXCEPT ![t] =
                   Ret(keep, Returned("unregisterEntry", r, 0, e, FALSE, FALSE,
                                      NoEntry))]
            /\ UNCHANGED rwlock
       ELSE /\ rwlock' = Locked(r, t)
            /\ th' = [th EXCEPT ![t] =
                   Entered("unregisterEntry", r, "erase", 0, e, FALSE)]
    /\ UNCHANGED <<map, nsmap, registeringWithLockHeld>>

\* line 145
UE_EraseMap(t) ==
    /\ At(t, "unregisterEntry", "erase")
    /\ map' = [map EXCEPT ![th[t].r] = EraseMap(@, idOf(th[t].e))]
    /\ th' = [th EXCEPT ![t].pc = "erase2"]
    /\ UNCHANGED <<nsmap, rwlock, registeringWithLockHeld>>

\* lines 146-147
UE_EraseNSMap(t, keep) ==
    /\ At(t, "unregisterEntry", "erase2")
    /\ nsmap' = [nsmap EXCEPT ![th[t].r] = EraseNSMap(@, nsidOf(th[t].e))]
    /\ rwlock' = Unlocked(th[t].r)
    /\ th' = [th EXCEPT ![t] =
           Ret(keep, Returned("unregisterEntry", th[t].r, 0, th[t].e, FALSE, TRUE,
                              NoEntry))]
    /\ UNCHANGED <<map, registeringWithLockHeld>>

\* ---- lookupEntryByID, lookupEntryByNSID
\* lines 151-155 (166-170): lock.lock() unless the calling thread's flag is set.
\* The key is read at the find, so the frame takes it there.
LK_Begin(t, r, op) ==
    /\ Outside(t)
    /\ IF registeringWithLockHeld[t][r]
       THEN UNCHANGED rwlock
       ELSE CanLockShared(r) /\ rwlock' = LockedShared(r, t)
    /\ th' = [th EXCEPT ![t] = Entered(op, r, "read", 0, NoEntry, FALSE)]
    /\ UNCHANGED <<map, nsmap, registeringWithLockHeld>>

\* lines 157-163: _map.find(id); the shared_lock is released if it was taken.
LKI_Read(t, id, keep) ==
    /\ At(t, "lookupEntryByID", "read")
    /\ rwlock' = UnlockedShared(th[t].r, t)
    /\ th' = [th EXCEPT ![t] =
           Ret(keep, Returned("lookupEntryByID", th[t].r, id, NoEntry, FALSE,
                              FALSE, map[th[t].r][id]))]
    /\ UNCHANGED <<map, nsmap, registeringWithLockHeld>>

\* lines 172-178: _nsmap.find(nsid)
LKN_Read(t, nsid, keep) ==
    /\ At(t, "lookupEntryByNSID", "read")
    /\ rwlock' = UnlockedShared(th[t].r, t)
    /\ th' = [th EXCEPT ![t] =
           Ret(keep, Returned("lookupEntryByNSID", th[t].r, nsid, NoEntry,
                              FALSE, FALSE, nsmap[th[t].r][nsid]))]
    /\ UNCHANGED <<map, nsmap, registeringWithLockHeld>>

\* ---- lock, unlock
\* (mutant) lock() returns without taking _rwlock.
ManualLock_Forgotten(t, r) ==
    /\ Outside(t)
    /\ th' = [th EXCEPT ![t] = Entered("lock", r, "held", 0, NoEntry, FALSE)]
    /\ UNCHANGED <<map, nsmap, rwlock, registeringWithLockHeld>>

\* lines 189-191: _rwlock.lock()
ManualLock(t, r) ==
    /\ Outside(t)
    /\ CanLock(r)
    /\ rwlock' = Locked(r, t)
    /\ th' = [th EXCEPT ![t] = Entered("lock", r, "held", 0, NoEntry, FALSE)]
    /\ UNCHANGED <<map, nsmap, registeringWithLockHeld>>

\* lines 193-195: _rwlock.unlock(), by the thread that called lock()
ManualUnlock(t) ==
    /\ At(t, "lock", "held")
    /\ rwlock' = Unlocked(th[t].r)
    /\ th' = [th EXCEPT ![t] = IdleFrame]
    /\ UNCHANGED <<map, nsmap, registeringWithLockHeld>>

\* ---- scopedLock
\* The ways out of the scope that holds the ScopedLock (lines 199-203).
ExitPaths == {"return", "early return", "exception"}

\* lines 204-206: ScopedLock(_rwlock) locks _rwlock and owns it; the caller's
\* scope begins.
SL_Acquire(t, r) ==
    /\ Outside(t)
    /\ CanLock(r)
    /\ rwlock' = Locked(r, t)
    /\ th' = [th EXCEPT ![t] =
           [Entered("scopedLock", r, "scope", 0, NoEntry, FALSE)
               EXCEPT !.owns = TRUE]]
    /\ UNCHANGED <<map, nsmap, registeringWithLockHeld>>

\* std::unique_lock::unlock() called by the scope ("manually unlocked
\* earlier", line 202): allowed only while the lock is owned.
SL_UnlockEarly(t) ==
    /\ At(t, "scopedLock", "scope")
    /\ th[t].owns
    /\ rwlock' = Unlocked(th[t].r)
    /\ th' = [th EXCEPT ![t].owns = FALSE]
    /\ UNCHANGED <<map, nsmap, registeringWithLockHeld>>

\* std::unique_lock::lock() called by the scope after an early unlock.
SL_Relock(t) ==
    /\ At(t, "scopedLock", "scope")
    /\ ~th[t].owns
    /\ CanLock(th[t].r)
    /\ rwlock' = Locked(th[t].r, t)
    /\ th' = [th EXCEPT ![t].owns = TRUE]
    /\ UNCHANGED <<map, nsmap, registeringWithLockHeld>>

\* (mutant) the lock released by a statement at the end of the scope, which
\* an exception passes by.
SL_Exit_NoUnwind(t, how) ==
    /\ At(t, "scopedLock", "scope")
    /\ rwlock' = IF th[t].owns /\ how # "exception"
                 THEN Unlocked(th[t].r) ELSE rwlock
    /\ th' = [th EXCEPT ![t] =
           [Returned("scopedLock", th[t].r, 0, NoEntry, FALSE, FALSE, NoEntry)
               EXCEPT !.exit = how, !.threw = (how = "exception"),
                      !.owns = th[t].owns]]
    /\ UNCHANGED <<map, nsmap, registeringWithLockHeld>>

\* The scope is left by path how: ~unique_lock() unlocks _rwlock if and only
\* if the lock is owned.
SL_Exit(t, how) ==
    /\ At(t, "scopedLock", "scope")
    /\ rwlock' = IF th[t].owns THEN Unlocked(th[t].r) ELSE rwlock
    /\ th' = [th EXCEPT ![t] =
           [Returned("scopedLock", th[t].r, 0, NoEntry, FALSE, FALSE, NoEntry)
               EXCEPT !.exit = how, !.threw = (how = "exception"),
                      !.owns = th[t].owns]]
    /\ UNCHANGED <<map, nsmap, registeringWithLockHeld>>

\* --------------------------------------------- several threads, one registry
\* The steps of thread t that continue the method it is in.
Continue(t, keep) ==
    \/ RIA_FactoryLookup(t)
    \/ \E e \in Entries : RIA_FactoryReturn(t, e)
    \/ RIA_FactoryThrow(t, keep)
    \/ RIA_PutMap(t)
    \/ RIA_PutNSMap(t, keep)
    \/ RE_PutMap(t)
    \/ RE_PutNSMap(t, keep)
    \/ UID_EraseMap(t)
    \/ UID_EraseNSMap(t, keep)
    \/ UNS_EraseMap(t)
    \/ UNS_EraseNSMap(t, keep)
    \/ UE_EraseMap(t)
    \/ UE_EraseNSMap(t, keep)
    \/ \E id \in IDs : LKI_Read(t, id, keep)
    \/ \E nsid \in NSIDs : LKN_Read(t, nsid, keep)
    \/ ManualUnlock(t)

\* The first step of a call by thread t on registry r.
Enter(t, r, keep) ==
    \/ \E nsid \in NSIDs, l \in FactoryLookups :
           RIA_Begin(t, r, nsid, l[1], l[2], keep)
    \/ \E e \in Entries, replace \in BOOLEAN : RE_Begin(t, r, e, replace, keep)
    \/ \E id \in IDs : UID_Begin(t, r, id, keep)
    \/ \E nsid \in NSIDs : UNS_Begin(t, r, nsid, keep)
    \/ \E e \in Entries : UE_Begin(t, r, e, keep)
    \/ LK_Begin(t, r, "lookupEntryByID")
    \/ LK_Begin(t, r, "lookupEntryByNSID")
    \/ ManualLock(t, r)

NextConc ==
    \E t \in Threads : Enter(t, MainRegistry, FALSE) \/ Continue(t, FALSE)

SpecConc == Init /\ [][NextConc]_vars

\* ------------------------------------ several threads, lock() and scopedLock()
\* Threads that take the exclusive section with scopedLock() or lock(), among
\* threads that register entries and look them up.
NextScoped ==
    \E t \in Threads :
        \/ SL_Acquire(t, MainRegistry)
        \/ SL_UnlockEarly(t)
        \/ SL_Relock(t)
        \/ \E how \in ExitPaths : SL_Exit(t, how)
        \/ ManualLock(t, MainRegistry)
        \/ ManualUnlock(t)
        \/ \E e \in Entries, replace \in BOOLEAN :
               RE_Begin(t, MainRegistry, e, replace, FALSE)
        \/ RE_PutMap(t)
        \/ RE_PutNSMap(t, FALSE)
        \/ LK_Begin(t, MainRegistry, "lookupEntryByID")
        \/ LK_Begin(t, MainRegistry, "lookupEntryByNSID")
        \/ \E id \in IDs : LKI_Read(t, id, FALSE)
        \/ \E nsid \in NSIDs : LKN_Read(t, nsid, FALSE)

SpecScoped == Init /\ [][NextScoped]_vars

\* Thread t is in the scope of a ScopedLock.
InScope(t) == At(t, "scopedLock", "scope")

\* Thread t has left the scope of a ScopedLock and made no call since.
LeftScope(t) == At(t, "scopedLock", "done")

\* C11 (scoped lock release): inside the scope the registry's lock is owned
\* by the thread exactly while its ScopedLock owns it, so an early release
\* is not followed by a second one that would take the lock from another
\* thread; once the scope is left, by whatever path, the thread owns no
\* lock, and the lock is free or owned by a thread now inside the registry.
C11_ScopedLockRelease ==
    /\ \A t \in Threads :
           /\ InScope(t) => (th[t].owns <=> rwlock[th[t].r].writer = t)
           /\ LeftScope(t) => \A r \in Registries : rwlock[r].writer # t
    /\ \A r \in Registries :
           rwlock[r].writer # NoThread => ~Outside(rwlock[r].writer)

\* A scope was left by an exception after its lock had been released early
\* and taken by another thread's scope, which still owns it.
C11_Witness ==
    \E t \in Threads, u \in Threads :
        /\ LeftScope(t) /\ th[t].exit = "exception" /\ ~th[t].owns
        /\ InScope(u) /\ th[u].owns /\ rwlock[th[u].r].writer = u

\* ----------------------------------------- several threads, both registries
\* Threads that call registerIfAbsent on the process registry and on the
\* thread registry; a factory may look up either registry once before it
\* returns or throws.
MadeEntries == {e \in Entries : e <= NumMade}

ContinueTwo(t) ==
    \/ \E q \in Registries : RIA_FactoryCallsLookup(t, q)
    \/ RIA_FactoryLookupLock(t)
    \/ \E l \in FactoryLookups : l[2] # 0 /\ RIA_FactoryLookupRead(t, l[1], l[2], FALSE)
    \/ \E e \in MadeEntries : RIA_FactoryReturn(t, e)
    \/ RIA_FactoryThrow(t, FALSE)
    \/ RIA_PutMap(t)
    \/ RIA_PutNSMap(t, FALSE)

EnterTwo(t, r) ==
    \E nsid \in NSIDs : RIA_Begin(t, r, nsid, "id", 0, FALSE)

NextTwo ==
    \E t \in Threads :
        \/ \E r \in Registries : EnterTwo(t, r)
        \/ ContinueTwo(t)

SpecTwo == Init /\ [][NextTwo]_vars

\* Thread t's factory is inside a lookup on registry q.
FactoryLooksUp(t, q) ==
    /\ th[t].op = "registerIfAbsent"
    /\ th[t].pc \in {"lookupcall", "lookupread"}
    /\ th[t].lreg = q

\* The registry on which the step of thread t acts.
StepRegistry(t) ==
    IF th[t].pc \in {"lookupcall", "lookupread"} THEN th[t].lreg
    ELSE IF Outside(t) THEN th'[t].r
    ELSE th[t].r

\* C14 (independence of the two registries): a step changes the lock of a
\* registry only when it is a step on that registry, and a thread's flag of a
\* registry only inside that registry's registerIfAbsent; a factory's lookup
\* on the other registry takes that registry's shared lock unless the
\* thread's flag of that other registry is set; and whether a call can take
\* a registry's lock depends on that lock alone.
C14_RegistriesIndependent ==
    [][/\ \A r \in Registries :
              rwlock'[r] # rwlock[r] =>
                  \E t \in Threads : th'[t] # th[t] /\ StepRegistry(t) = r
       /\ \A t \in Threads, r \in Registries :
              /\ registeringWithLockHeld'[t][r] # registeringWithLockHeld[t][r] =>
                     th'[t].op = "registerIfAbsent" /\ th'[t].r = r
              /\ (/\ FactoryLooksUp(t, r) /\ th[t].r # r
                  /\ th[t].pc = "lookupcall" /\ th'[t].pc = "lookupread") =>
                     (t \in rwlock'[r].readers <=> ~registeringWithLockHeld[t][r])
              /\ (Outside(t) /\ CanLock(r)) =>
                     ENABLED (\E nsid \in NSIDs :
                                 RIA_Begin(t, r, nsid, "id", 0, FALSE))
              /\ (FactoryLooksUp(t, r) /\ th[t].pc = "lookupcall"
                      /\ CanLockShared(r)) =>
                     ENABLED RIA_FactoryLookupLock(t)]_vars

\* A thread inside the factory of one registry, owning that registry's lock
\* exclusively with its flag of that registry set, is in a lookup on the
\* other registry, whose flag is not set for the thread and whose lock the
\* thread owns shared.
C14_Witness ==
    \E t \in Threads, q \in Registries :
        /\ FactoryLooksUp(t, q) /\ th[t].pc = "lookupread"
        /\ th[t].r # q
        /\ registeringWithLockHeld[t][th[t].r]
        /\ ~registeringWithLockHeld[t][q]
        /\ rwlock[th[t].r].writer = t
        /\ t \in rwlock[q].readers

\* Thread t waits for a lock: its factory has called a lookup whose
\* lock.lock() cannot return.
Waiting(t) ==
    /\ At(t, "registerIfAbsent", "lookupcall")
    /\ ~ENABLED RIA_FactoryLookupLock(t)

\* A set of threads each of which waits for a lock that a thread of the set
\* owns exclusively: none of them ever returns.
Deadlock ==
    \E S \in SUBSET Threads :
        /\ S # {}
        /\ \A t \in S : Waiting(t) /\ rwlock[th[t].lreg].writer \in S

\* C16 (every operation eventually returns): with factories that call only
\* lookups, of their own registry or of the other one, no reachable state is
\* a deadlock.
C16_EveryOperationReturns == ~Deadlock

\* ------------------------------- the race on one key: N registerIfAbsent calls
\* Every thread calls registerIfAbsent(K, factory) once, on the same key K,
\* which is not registered; another entry may be registered under another
\* nsid.  The frame of a thread that has not called yet holds K.
InitRace ==
    \E k \in NSIDs, pre \in Entries \cup {NoEntry} :
        /\ pre # NoEntry => nsidOf(pre) # k
        /\ map = [r \in Registries |-> [i \in IDs |->
               IF r = MainRegistry /\ pre # NoEntry /\ i = idOf(pre)
               THEN pre ELSE NoEntry]]
        /\ nsmap = [r \in Registries |-> [n \in NSIDs |->
               IF r = MainRegistry /\ pre # NoEntry /\ n = nsidOf(pre)
               THEN pre ELSE NoEntry]]
        /\ rwlock = [r \in Registries |-> [writer |-> NoThread, readers |-> {}]]
        /\ registeringWithLockHeld =
               [t \in Threads |-> [r \in Registries |-> FALSE]]
        /\ th = [t \in Threads |-> [IdleFrame EXCEPT !.key = k]]

NextRace ==
    \E t \in Threads :
        \/ /\ th[t].op = "none"
           /\ \E l \in FactoryLookups :
                  RIA_Begin(t, MainRegistry, th[t].key, l[1], l[2], TRUE)
        \/ RIA_FactoryLookup(t)
        \/ \E e \in Entries : RIA_FactoryReturn(t, e)
        \/ RIA_FactoryThrow(t, TRUE)
        \/ RIA_PutMap(t)
        \/ RIA_PutNSMap(t, TRUE)

SpecRace == InitRace /\ [][NextRace]_vars

\* Thread t's factory has been called.
Invoked(t) ==
    /\ th[t].op = "registerIfAbsent"
    /\ th[t].pc \in {"factory", "insert", "insert2"} \/ th[t].e # NoEntry \/ th[t].threw

AllReturned == \A t \in Threads : th[t].op = "registerIfAbsent" /\ th[t].pc = "done"

\* At most one factory has been called; and once every caller has returned,
\* exactly one was, and every caller returned the entry it made.
OneCreation ==
    /\ Cardinality({t \in Threads : Invoked(t)}) <= 1
    /\ AllReturned =>
           \E c \in Threads :
               /\ Invoked(c) /\ th[c].e # NoEntry
               /\ \A t \in Threads : th[t].retE = th[c].e

FactoriesKeepKey ==
    \A t \in Threads :
        /\ ~th[t].threw
        /\ th[t].e # NoEntry => nsidOf(th[t].e) = th[t].key

CallsOnPresentKey(t) ==
    /\ th[t].op = "none" /\ th'[t].op = "registerIfAbsent"
    /\ nsmap[MainRegistry][th[t].key] # NoEntry

\* C13 (create-if-absent on a present key): the call returns the handle
\* registered under K, its factory is not called, and neither map changes.
C13_PresentKeyReturned ==
    [][\A t \in Threads :
           CallsOnPresentKey(t) =>
               /\ th'[t].pc = "done"
               /\ th'[t].retE = nsmap[MainRegistry][th[t].key]
               /\ ~Invoked(t)'
               /\ UNCHANGED <<map, nsmap>>]_vars

\* A registerIfAbsent(K, factory) call has returned the entry registered
\* under K by another caller, without its factory having been called.
C13_Witness ==
    \E t \in Threads, c \in Threads :
        /\ t # c
        /\ th[t].op = "registerIfAbsent" /\ th[t].pc = "done" /\ ~Invoked(t)
        /\ th[t].retE # NoEntry /\ th[t].retE = th[c].e
        /\ nsmap[MainRegistry][th[t].key] = th[t].retE

\* ===================================================== claims on SpecConc
\* Thread u has written or erased an entry of _map and not yet the entry of
\* _nsmap that goes with it.
MidWrite(u) == th[u].pc \in {"put2", "erase2", "insert2"}

\* Thread t is in a top-level lookup, before its find.
Reading(t) == th[t].pc = "read"

\* Thread t is inside registerIfAbsent and holds (or should hold) the lock.
InRegisterIfAbsent(t) ==
    th[t].op = "registerIfAbsent" /\ th[t].pc \in {"factory", "insert", "insert2"}

\* C7 (same-thread reentrant lookup): while the factory runs, the calling
\* thread's flag is set and it owns the lock, so the factory's lookup on this
\* registry takes no lock and can always proceed, and it returns what was
\* registered under its key when registerIfAbsent took the lock.
C7_ReentrantLookup ==
    \A t \in Threads :
        th[t].op = "registerIfAbsent" =>
            /\ th[t].pc = "factory" =>
                   /\ registeringWithLockHeld[t][th[t].r]
                   /\ rwlock[th[t].r].writer = t
                   /\ (th[t].lk # 0 /\ ~th[t].looked) => ENABLED RIA_FactoryLookup(t)
                   /\ (th[t].lk = 0 \/ th[t].looked) =>
                          ENABLED (\E e \in Entries : RIA_FactoryReturn(t, e))
            /\ th[t].looked => th[t].lr = th[t].snap

\* A factory has made its lookup and found a registered entry.
C7_Witness ==
    \E t \in Threads :
        /\ th[t].op = "registerIfAbsent" /\ th[t].pc = "factory"
        /\ th[t].looked /\ th[t].lr # NoEntry

\* C8 (no partially applied effect is observed): no thread is about to read
\* a map in a lookup while another thread has changed _map and not yet
\* _nsmap.
C8_NoPartialObservation ==
    \A t \in Threads, u \in Threads :
        t # u => ~(Reading(t) /\ MidWrite(u))

\* C9 (writer exclusion spans the factory): while a thread is inside
\* registerIfAbsent, from taking the lock to its return, no other thread is
\* inside any method of the registry; and the lock never has an exclusive
\* owner together with a shared owner.
C9_WriterExclusion ==
    /\ \A t \in Threads :
           InRegisterIfAbsent(t) =>
               \A u \in Threads \ {t} : th[u].r = th[t].r => Outside(u)
    /\ \A r \in Registries :
           rwlock[r].writer # NoThread => rwlock[r].readers = {}

\* C10 (manual lock): from a state in which a thread holds the lock it took
\* with lock(), no step adds an entry to or removes one from that registry.
C10_ManualLock ==
    [][\A t \in Threads :
           At(t, "lock", "held") =>
               /\ map'[th[t].r] = map[th[t].r]
               /\ nsmap'[th[t].r] = nsmap[th[t].r]]_vars

\* A thread holds the lock it took with lock() while an entry is registered
\* and another thread is inside a lookup (one that took no lock).
C10_Witness ==
    \E t \in Threads, u \in Threads :
        /\ At(t, "lock", "held")
        /\ \E e \in Entries : Registered(e)
        /\ Reading(u)

\* C15 (readers do not block readers): a thread inside a lookup owns the
\* lock shared or not at all, never exclusively; a lookup can begin whenever
\* the lock has no exclusive owner, however many lookups are inside; and a
\* lookup that has begun can always make its find and return.
C15_ReadersDoNotBlockReaders ==
    \A t \in Threads :
        /\ Reading(t) =>
               /\ rwlock[th[t].r].writer # t
               /\ t \in rwlock[th[t].r].readers \/ registeringWithLockHeld[t][th[t].r]
               /\ ENABLED (\/ \E id \in IDs : LKI_Read(t, id, FALSE)
                           \/ \E nsid \in NSIDs : LKN_Read(t, nsid, FALSE))
        /\ (Outside(t) /\ rwlock[MainRegistry].writer = NoThread) =>
               /\ ENABLED LK_Begin(t, MainRegistry, "lookupEntryByID")
               /\ ENABLED LK_Begin(t, MainRegistry, "lookupEntryByNSID")

\* Every thread but one is inside a lookup and owns the lock shared, and
\* the last one can begin its lookup.
C15_Witness ==
    /\ Cardinality(Threads) > 1
    /\ \E t \in Threads :
           /\ Outside(t)
           /\ ENABLED LK_Begin(t, MainRegistry, "lookupEntryByID")
           /\ \A u \in Threads \ {t} :
                  Reading(u) /\ u \in rwlock[MainRegistry].readers

\* C18 (the reentrancy flag implies lock ownership): a thread's flag for a
\* registry is set only while the thread owns that registry's lock
\* exclusively inside registerIfAbsent, between lines 61 and 63.
C18_FlagImpliesLock ==
    \A t \in Threads, r \in Registries :
        registeringWithLockHeld[t][r] =>
            /\ rwlock[r].writer = t
            /\ th[t].op = "registerIfAbsent" /\ th[t].r = r
            /\ th[t].pc \in {"factory", "insert"}

====
